---- MODULE Spec2Model ----
(***************************************************************************)
(* The Telegram webhook of BankBot (src/main.py): the per-chat login state *)
(* machine, the session helpers over the tables user_sessions and          *)
(* temp_data, and the webhook handler, one step per collaborator call, so  *)
(* that handlers of several deliveries interleave between their calls;     *)
(* and call_gemini_api, the retry loop of the Answer Service call, one     *)
(* step per loop test, request and sleep.  The in-memory sessions of       *)
(* auth_handler (/login) and their use by image_handler                    *)
(* (/image-to-chatbot) are modelled one step per request.                  *)
(*                                                                         *)
(* A table is a function from chat_id to the set of its rows (at most one  *)
(* row per primary key).  A row holds, for expires_at, the time left until  *)
(* it (expires_at - NOW(), 0 once it has passed): expires_at > NOW() reads  *)
(* expires_in > 0, and time passing lowers every row's expires_in.         *)
(* A Python value that may be None, or a column                            *)
(* that may be NULL, is the string None when it is a string and the empty  *)
(* set when it is a dict (a dict is a one-element set holding a record).   *)
(***************************************************************************)
EXTENDS Integers, Sequences, FiniteSets, TLC

(* ------------------------------ bounds -------------------------------- *)
\* Chats that send messages, and the handler invocations that may be in flight.
Chats == {"chat1", "chat2"}
Handlers == {1, 2}

(* --------------------------- program constants ------------------------ *)
\* The INTERVALs of store_temp_data, set_user_state and store_user_session,
\* in model time units that keep their order: 5 minutes < 1 hour < 1 day.
TempTTL == 1
StateTTL == 2
SessionTTL == 3

None == "None"

\* main.py never imports json, and no import of it binds the name: every
\* evaluation of json.dumps / json.loads raises NameError.
JsonDefined == FALSE

(* ------------------------------ Data Store ---------------------------- *)
\* The rows of table users the model starts from (columns that are only
\* passed through are left out).
AccountNumbers == {"A1", "A2"}
PasswordOf(a) == IF a = "A1" THEN "p1" ELSE "p2"
UserRow(a, st) ==
    [customer_id |-> IF a = "A1" THEN 1 ELSE 2,
     name |-> IF a = "A1" THEN "N1" ELSE "N2",
     account_number |-> a,
     status |-> st,
     password |-> PasswordOf(a)]
Statuses == {"ACTIVE", "INACTIVE"}

\* Message texts after strip(): the command /start, as the handler spells it
\* and in capitals; the commands /transactions and /query; the account
\* numbers, their passwords, and a text that is neither.
Bodies == {"/start", "/START", "/transactions", "/query q",
           "A1", "A2", "X9", "p1", "p2"}
\* A raw text: its body and whether whitespace surrounds it.
RawTexts == [body : Bodies, pad : BOOLEAN]
strip(raw) == raw.body

VARIABLES
    users,         \* table users
    user_sessions, \* table user_sessions: chat_id -> set of rows
    temp_data,     \* table temp_data: chat_id -> set of rows (key, value, expires_in)
    pc,            \* per handler invocation: the line of main.py it executes next
    loc,           \* per handler invocation: its local variables and what it sent
    auth_handler   \* module auth_handler: its dict user_sessions, and the last
                   \* response of /login or /image-to-chatbot

vars == <<users, user_sessions, temp_data, pc, loc, auth_handler>>

(* --------------------------- session helpers -------------------------- *)
\* The WHERE clause without its expires_at condition.
Live_unfiltered(rows) == rows

\* WHERE ... expires_at > NOW()
Live(rows) == {r \in rows : r.expires_in > 0}

get_user_state(sess, chat_id) ==
    LET result == Live(sess[chat_id])
    IN  IF result = {} THEN None ELSE (CHOOSE r \in result : TRUE).state

set_user_state(sess, chat_id, state) ==
    [sess EXCEPT ![chat_id] =
        IF @ = {}
        THEN {[state |-> state, user_data |-> {}, expires_in |-> StateTTL]}
        ELSE {[r EXCEPT !.state = state, !.expires_in = StateTTL] : r \in @}]

store_temp_data(tmp, chat_id, key, value) ==
    [tmp EXCEPT ![chat_id] =
        {r \in @ : r.key # key}
            \cup {[key |-> key, value |-> value, expires_in |-> TempTTL]}]

\* get_temp_data with the chat_id condition missing from its WHERE clause.
get_temp_data_any_chat(tmp, chat_id, key) ==
    LET result == {r \in Live(UNION {tmp[c] : c \in DOMAIN tmp}) : r.key = key}
    IN  IF result = {} THEN None ELSE (CHOOSE r \in result : TRUE).value

get_temp_data(tmp, chat_id, key) ==
    LET result == {r \in Live(tmp[chat_id]) : r.key = key}
    IN  IF result = {} THEN None ELSE (CHOOSE r \in result : TRUE).value

\* The upsert store_user_session sends once json.dumps has returned.
store_user_session(sess, chat_id, user_data) ==
    [sess EXCEPT ![chat_id] =
        IF @ = {}
        THEN {[state |-> None, user_data |-> user_data, expires_in |-> SessionTTL]}
        ELSE {[r EXCEPT !.user_data = user_data, !.expires_in = SessionTTL] : r \in @}]

\* The row get_user_session fetches (the empty set: no live row).
get_user_session(sess, chat_id) == Live(sess[chat_id])

\* clear_user_session whose DELETE is never committed.
clear_user_session_uncommitted(table, chat_id) == table

\* Both DELETEs of clear_user_session, each on its table.
clear_user_session(table, chat_id) == [table EXCEPT ![chat_id] = {}]

\* verify_password accepting every input.
verify_password_any(input_password, stored_password) == TRUE

verify_password(input_password, stored_password) == input_password = stored_password

\* get_user_by_account with the status condition missing from its WHERE clause.
get_user_by_account_any_status(tbl, account_number) ==
    {r \in tbl : r.account_number = account_number}

\* UserManager.get_user_by_account: the dict of the active row, or the empty set.
get_user_by_account(tbl, account_number) ==
    {r \in tbl : r.account_number = account_number /\ r.status = "ACTIVE"}

(* ------------------------------ the handler --------------------------- *)
\* chat_id before line 169 has bound it.
NoChat == "unbound"

\* What the chat's session reads as at time t: state, scratch, payload.
Session(sess, tmp, c) ==
    [state |-> get_user_state(sess, c),
     scratch |-> get_temp_data(tmp, c, "account_number"),
     payload |-> UNION {r.user_data : r \in Live(sess[c])}]

\* An invocation's record: the update's kind, the handler's locals (chat_id,
\* text, user_state, account_number, user), the status it returns (EXCEPTION:
\* an exception left the handler) and the replies it sent; and, to state
\* properties: pre, the session the update found; faulted, whether a
\* collaborator call raised; disturbed, whether time passed or the Data Store
\* changed while the update was handled; writes, the Session Store writes
\* (committed transactions) the handler has made.  call holds the locals of
\* call_gemini_api (retries, attempt, what the call returned or raised) and
\* the responses its requests received, in order.
DefaultRetries == 3
NoCall ==
    [retries |-> DefaultRetries, attempt |-> 0, responses |-> <<>>, result |-> None]
IdleLoc ==
    [update |-> None, chat |-> NoChat, text |-> "", user_state |-> None,
     account_number |-> None, user |-> {}, ret |-> None, sent |-> <<>>,
     pre |-> [state |-> None, scratch |-> None, payload |-> {}],
     faulted |-> FALSE, disturbed |-> FALSE, writes |-> 0, call |-> NoCall]

\* auth_handler as imported: user_sessions = {} (line 12), no request served.
NoLogin == [user_sessions |-> <<>>, response |-> [endpoint |-> None]]

Init ==
    /\ users = {UserRow(a, "ACTIVE") : a \in AccountNumbers}
    /\ user_sessions = [c \in Chats |-> {}]
    /\ temp_data = [c \in Chats |-> {}]
    /\ pc = [h \in Handlers |-> "idle"]
    /\ loc = [h \in Handlers |-> IdleLoc]
    /\ auth_handler = NoLogin

\* The except clause (lines 271-276) starts: its send_message is next.
Raise(h) == pc' = [pc EXCEPT ![h] = "L274_send"]

\* The dispatch with the commands block entered for a /query text whatever
\* the state (the test of line 228 not guarding it).
Dispatch_query_unguarded(text, user_state) ==
    IF text = "/start" THEN "L177_clear"
    ELSE IF text = "/query q" THEN "L229_get_session"
    ELSE IF user_state = "awaiting_account" THEN "L185_get_user"
    ELSE IF user_state = "awaiting_password" THEN "L199_get_temp"
    ELSE IF user_state = "authenticated" THEN "L229_get_session"
    ELSE "L267_send"

\* Lines 175, 184, 198, 228, 266: the branch taken once user_state is known.
Dispatch(text, user_state) ==
    IF text = "/start" THEN "L177_clear"
    ELSE IF user_state = "awaiting_account" THEN "L185_get_user"
    ELSE IF user_state = "awaiting_password" THEN "L199_get_temp"
    ELSE IF user_state = "authenticated" THEN "L229_get_session"
    ELSE "L267_send"

\* How updates arrive, by specification:
\*   serial:  deliveries are handled one at a time;
\*   overlap: deliveries of one chat overlap;
\*   chats:   two chats log in at the same time, each to its own account, a
\*            chat's messages being handled one at a time.
\* The invocations that must have returned before an update of chat c is
\* delivered.
Busy(mode, c) ==
    CASE mode = "serial" -> Handlers
      [] mode = "overlap" -> {}
      [] mode = "chats" -> {g \in Handlers : loc[g].chat = c}
OwnAccount(c) == IF c = "chat1" THEN "A1" ELSE "A2"
\* The message texts chat c sends.
Texts(mode, c) ==
    CASE mode = "serial" -> Bodies
      [] mode = "overlap" -> IF c = "chat1" THEN Bodies ELSE {}
      [] mode = "chats" -> {"/start", OwnAccount(c), PasswordOf(OwnAccount(c)), "X9"}

\* The handler without the test of line 166: an update without "message"
\* raises KeyError at line 169 like one without a chat id.
Deliver_no_message_test(h, mode) ==
    /\ pc[h] = "idle"
    /\ \A g \in Handlers : (g < h => pc[g] # "idle") /\ pc[g] # "done"
    /\ \/ /\ \A g \in Busy(mode, NoChat) : pc[g] = "idle"
          /\ pc' = [pc EXCEPT ![h] = "done"]
          /\ \/ loc' = [loc EXCEPT ![h].update = "no_message", ![h].ret = "EXCEPTION"]
             \/ loc' = [loc EXCEPT ![h].update = "no_chat", ![h].ret = "EXCEPTION"]
       \/ \E c \in Chats, raw \in RawTexts :
            /\ raw.body \in Texts(mode, c)
            /\ \A g \in Busy(mode, c) : pc[g] = "idle"
            /\ pc' = [pc EXCEPT ![h] = "L173_get_state"]
            /\ loc' = [loc EXCEPT ![h] =
                    [IdleLoc EXCEPT !.update = "message", !.chat = c, !.text = strip(raw),
                        !.pre = IF mode = "serial"
                                THEN Session(user_sessions, temp_data, c)
                                ELSE IdleLoc.pre]]
    /\ UNCHANGED <<auth_handler, users, user_sessions, temp_data>>

\* Lines 165-170: the update arrives.  Without "message" the handler returns
\* at once; without message.chat.id line 169 raises KeyError, and the except
\* clause's send_message(chat_id, ...) raises UnboundLocalError, which leaves
\* the handler.  The server takes the lowest free invocation slot, once the
\* invocations that have returned are dropped.  In mode serial the session
\* the update finds is recorded with it.
Deliver(h, mode) ==
    /\ pc[h] = "idle"
    /\ \A g \in Handlers : (g < h => pc[g] # "idle") /\ pc[g] # "done"
    /\ \/ /\ \A g \in Busy(mode, NoChat) : pc[g] = "idle"
          /\ pc' = [pc EXCEPT ![h] = "done"]
          /\ \/ loc' = [loc EXCEPT ![h].update = "no_message", ![h].ret = "no_message"]
             \/ loc' = [loc EXCEPT ![h].update = "no_chat", ![h].ret = "EXCEPTION"]
       \/ \E c \in Chats, raw \in RawTexts :
            /\ raw.body \in Texts(mode, c)
            /\ \A g \in Busy(mode, c) : pc[g] = "idle"
            /\ pc' = [pc EXCEPT ![h] = "L173_get_state"]
            /\ loc' = [loc EXCEPT ![h] =
                    [IdleLoc EXCEPT !.update = "message", !.chat = c, !.text = strip(raw),
                        !.pre = IF mode = "serial"
                                THEN Session(user_sessions, temp_data, c)
                                ELSE IdleLoc.pre]]
    /\ UNCHANGED <<auth_handler, users, user_sessions, temp_data>>

\* Line 173.
GetUserState(h) ==
    /\ pc[h] = "L173_get_state"
    /\ LET s == get_user_state(user_sessions, loc[h].chat)
       IN  /\ loc' = [loc EXCEPT ![h].user_state = s]
           /\ pc' = [pc EXCEPT ![h] = Dispatch(loc[h].text, s)]
    /\ UNCHANGED <<auth_handler, users, user_sessions, temp_data>>

\* Lines 177 and 224.
ClearUserSession(h) ==
    /\ pc[h] \in {"L177_clear", "L224_clear"}
    /\ user_sessions' = clear_user_session(user_sessions, loc[h].chat)
    /\ temp_data' = clear_user_session(temp_data, loc[h].chat)
    /\ IF pc[h] = "L177_clear"
       THEN /\ pc' = [pc EXCEPT ![h] = "L178_send"]
            /\ loc' = [loc EXCEPT ![h].writes = @ + 1]
       ELSE /\ pc' = [pc EXCEPT ![h] = "done"]
            /\ loc' = [loc EXCEPT ![h].ret = "invalid_password", ![h].writes = @ + 1]
    /\ UNCHANGED <<auth_handler, users>>

\* The text each send_message call of the handler sends.
ReplyAt(label) ==
    CASE label = "L178_send" -> "Welcome to BankBot! Please enter your account number:"
      [] label = "L189_send" -> "Account verified! Please enter your password:"
      [] label = "L193_send" -> "Invalid account number."
      [] label = "L201_send" -> "Session expired. Please type /start to begin again."
      [] label = "L219_send" -> "Authentication successful!"
      [] label = "L222_send" -> "Invalid password."
      [] label = "L231_send" -> "Session expired. Please type /start to authenticate."
      [] label = "L267_send" -> "Please authenticate first using /start command"
      [] label = "L274_send" -> "An error occurred. Please try again."

\* What follows each send_message call: the next call, or the status returned.
AfterSend(label) ==
    CASE label = "L178_send" -> [pc |-> "L180_set_state", ret |-> None]
      [] label = "L189_send" -> [pc |-> "done", ret |-> "awaiting_password"]
      [] label = "L193_send" -> [pc |-> "done", ret |-> "invalid_account"]
      [] label = "L201_send" -> [pc |-> "done", ret |-> "session_expired"]
      [] label = "L219_send" -> [pc |-> "done", ret |-> "authenticated"]
      [] label = "L222_send" -> [pc |-> "L224_clear", ret |-> None]
      [] label = "L231_send" -> [pc |-> "done", ret |-> "session_expired"]
      [] label = "L267_send" -> [pc |-> "done", ret |-> "unauthorized"]
      [] label = "L274_send" -> [pc |-> "done", ret |-> "error"]

SendLabels ==
    {"L178_send", "L189_send", "L193_send", "L201_send", "L219_send",
     "L222_send", "L231_send", "L267_send", "L274_send"}

\* TelegramHandler.send_message returning.
SendMessage(h) ==
    /\ pc[h] \in SendLabels
    /\ pc' = [pc EXCEPT ![h] = AfterSend(pc[h]).pc]
    /\ loc' = [loc EXCEPT ![h].sent = Append(@, ReplyAt(pc[h])),
                          ![h].ret = AfterSend(pc[h]).ret]
    /\ UNCHANGED <<auth_handler, users, user_sessions, temp_data>>

\* The state each set_user_state call of the handler writes.
StateAt(label) ==
    CASE label = "L180_set_state" -> "awaiting_account"
      [] label = "L188_set_state" -> "awaiting_password"
      [] label = "L207_set_state" -> "authenticated"

\* Lines 180, 188 and 207.
SetUserState(h) ==
    /\ pc[h] \in {"L180_set_state", "L188_set_state", "L207_set_state"}
    /\ user_sessions' = set_user_state(user_sessions, loc[h].chat, StateAt(pc[h]))
    /\ CASE pc[h] = "L180_set_state" ->
              /\ pc' = [pc EXCEPT ![h] = "done"]
              /\ loc' = [loc EXCEPT ![h].ret = "awaiting_account", ![h].writes = @ + 1]
         [] pc[h] = "L188_set_state" ->
              /\ pc' = [pc EXCEPT ![h] = "L189_send"]
              /\ loc' = [loc EXCEPT ![h].writes = @ + 1]
         [] pc[h] = "L207_set_state" ->
              /\ pc' = [pc EXCEPT ![h] = "L208_store_session"]
              /\ loc' = [loc EXCEPT ![h].writes = @ + 1]
    /\ UNCHANGED <<auth_handler, users, temp_data>>

\* Lines 185-186 (the text as account number) and 205-206 (the scratch
\* account number, then the password check).
GetUserByAccount(h) ==
    /\ pc[h] \in {"L185_get_user", "L205_get_user"}
    /\ LET user == get_user_by_account(users,
                        IF pc[h] = "L185_get_user" THEN loc[h].text
                        ELSE loc[h].account_number)
       IN  /\ loc' = [loc EXCEPT ![h].user = user]
           /\ pc' = [pc EXCEPT ![h] =
                  IF pc[h] = "L185_get_user"
                  THEN (IF user # {} THEN "L187_store_temp" ELSE "L193_send")
                  ELSE (IF /\ user # {}
                           /\ \A u \in user : verify_password(loc[h].text, u.password)
                        THEN "L207_set_state" ELSE "L222_send")]
    /\ UNCHANGED <<auth_handler, users, user_sessions, temp_data>>

\* Line 187.
StoreTempData(h) ==
    /\ pc[h] = "L187_store_temp"
    /\ temp_data' = store_temp_data(temp_data, loc[h].chat, "account_number", loc[h].text)
    /\ pc' = [pc EXCEPT ![h] = "L188_set_state"]
    /\ loc' = [loc EXCEPT ![h].writes = @ + 1]
    /\ UNCHANGED <<auth_handler, users, user_sessions>>

\* Lines 199-205 without the test of line 200: the account is fetched
\* whatever get_temp_data returned.
GetTempData_unchecked(h) ==
    /\ pc[h] = "L199_get_temp"
    /\ LET account_number == get_temp_data(temp_data, loc[h].chat, "account_number")
       IN  /\ loc' = [loc EXCEPT ![h].account_number = account_number]
           /\ pc' = [pc EXCEPT ![h] = "L205_get_user"]
    /\ UNCHANGED <<auth_handler, users, user_sessions, temp_data>>

\* Lines 199-200.
GetTempData(h) ==
    /\ pc[h] = "L199_get_temp"
    /\ LET account_number == get_temp_data(temp_data, loc[h].chat, "account_number")
       IN  /\ loc' = [loc EXCEPT ![h].account_number = account_number]
           /\ pc' = [pc EXCEPT ![h] =
                  IF account_number = None \/ account_number = ""
                  THEN "L201_send" ELSE "L205_get_user"]
    /\ UNCHANGED <<auth_handler, users, user_sessions, temp_data>>

\* Line 208: json.dumps(user_data) is evaluated before the statement is sent.
StoreUserSession(h) ==
    /\ pc[h] = "L208_store_session"
    /\ IF JsonDefined
       THEN /\ user_sessions' = store_user_session(user_sessions, loc[h].chat, loc[h].user)
            /\ pc' = [pc EXCEPT ![h] = "L219_send"]
            /\ loc' = [loc EXCEPT ![h].writes = @ + 1]
       ELSE /\ user_sessions' = user_sessions
            /\ Raise(h)
            /\ loc' = loc
    /\ UNCHANGED <<auth_handler, users, temp_data>>

\* Lines 229-230: with a live row, json.loads(result[0]) is evaluated.  The
\* commands of lines 235-264 follow a payload, which no call returns.
GetUserSession(h) ==
    /\ pc[h] = "L229_get_session"
    /\ LET result == get_user_session(user_sessions, loc[h].chat)
       IN  IF result = {}
           THEN pc' = [pc EXCEPT ![h] = "L231_send"]
           ELSE IF JsonDefined /\ \A r \in result : r.user_data # {}
                THEN pc' = [pc EXCEPT ![h] = "L235_commands"]
                ELSE Raise(h)
    /\ UNCHANGED <<auth_handler, users, user_sessions, temp_data, loc>>

\* A collaborator call (the database connection of a session helper or of
\* UserManager, the request of send_message) raises.  Inside the try block
\* the except clause takes over; inside the except clause the exception
\* leaves the handler.
Fail(h) ==
    /\ pc[h] \notin {"idle", "done"}
    /\ IF pc[h] = "L274_send"
       THEN /\ pc' = [pc EXCEPT ![h] = "done"]
            /\ loc' = [loc EXCEPT ![h].ret = "EXCEPTION", ![h].faulted = TRUE]
       ELSE /\ Raise(h)
            /\ loc' = [loc EXCEPT ![h].faulted = TRUE]
    /\ UNCHANGED <<auth_handler, users, user_sessions, temp_data>>

\* The handler has returned; its invocation record is dropped.
Return(h) ==
    /\ pc[h] = "done"
    /\ pc' = [pc EXCEPT ![h] = "idle"]
    /\ loc' = [loc EXCEPT ![h] = IdleLoc]
    /\ UNCHANGED <<auth_handler, users, user_sessions, temp_data>>

\* The invocations in flight are marked disturbed.
Disturb ==
    [h \in Handlers |->
        IF pc[h] = "idle" THEN loc[h] ELSE [loc[h] EXCEPT !.disturbed = TRUE]]

\* Time passes: NOW() grows by one unit.
Age(rows) == {[r EXCEPT !.expires_in = IF @ > 0 THEN @ - 1 ELSE 0] : r \in rows}
Tick ==
    /\ user_sessions' = [c \in Chats |-> Age(user_sessions[c])]
    /\ temp_data' = [c \in Chats |-> Age(temp_data[c])]
    /\ loc' = Disturb
    /\ UNCHANGED <<auth_handler, users, pc>>

\* The Data Store changes an account's status.
SetStatus(a) ==
    /\ \E st \in Statuses : users' = {IF r.account_number = a THEN UserRow(a, st) ELSE r : r \in users}
    /\ users' # users
    /\ loc' = Disturb
    /\ UNCHANGED <<auth_handler, user_sessions, temp_data, pc>>

\* A step of a handler in which no collaborator call raises.
Calls(h) ==
    \/ GetUserState(h)
    \/ ClearUserSession(h)
    \/ SendMessage(h)
    \/ SetUserState(h)
    \/ GetUserByAccount(h)
    \/ StoreTempData(h)
    \/ GetTempData(h)
    \/ StoreUserSession(h)
    \/ GetUserSession(h)
    \/ Return(h)

Step(h) == Calls(h) \/ Fail(h)

\* Deliveries are handled one at a time; collaborator calls may raise, time
\* passes and the Data Store changes.
Next ==
    \/ \E h \in Handlers : Deliver(h, "serial")
    \/ \E h \in Handlers : Step(h)
    \/ Tick
    \/ \E a \in AccountNumbers : SetStatus(a)

Spec == Init /\ [][Next]_vars

\* Deliveries of one chat overlap; no collaborator call raises.
NextOverlap ==
    \/ \E h \in Handlers : Deliver(h, "overlap")
    \/ \E h \in Handlers : Calls(h)
    \/ Tick

SpecOverlap == Init /\ [][NextOverlap]_vars

\* Two chats log in at the same time, each to its own account; no
\* collaborator call raises.
NextChats ==
    \/ \E h \in Handlers : Deliver(h, "chats")
    \/ \E h \in Handlers : Calls(h)
    \/ Tick

SpecChats == Init /\ [][NextChats]_vars

(* ---------------------------- call_gemini_api ------------------------- *)
\* The values of retries the call is made with (the default among them).
MaxRetries == 4

\* What one requests.post (line 365) of the call meets: an exception of
\* requests (timeout, connection error), a response whose status is not 200,
\* or a 200 response whose JSON body has the key "content" or lacks it.
Outcomes == {"Timeout", "ConnectionError", "status_500", "status_404",
             "status_200_content", "status_200_no_content"}
RequestExceptions == {"Timeout", "ConnectionError"}

\* call_gemini_api(payload, retries) called on its own, for each retries.
InitGemini ==
    /\ users = {UserRow(a, "ACTIVE") : a \in AccountNumbers}
    /\ user_sessions = [c \in Chats |-> {}]
    /\ temp_data = [c \in Chats |-> {}]
    /\ \E r \in 0..MaxRetries :
          /\ pc = [h \in Handlers |-> IF h = 1 THEN "L363_for" ELSE "idle"]
          /\ loc = [h \in Handlers |->
                      IF h = 1 THEN [IdleLoc EXCEPT !.call.retries = r] ELSE IdleLoc]
    /\ auth_handler = NoLogin

\* The call ends: it returns result, or the exception named by result leaves it.
CallEnds(h, result) ==
    /\ pc' = [pc EXCEPT ![h] = "call_done"]
    /\ loc' = [loc EXCEPT ![h].call.result = result]

\* The loop running one attempt more than retries (range(retries + 1)).
GeminiFor_one_more(h) ==
    /\ pc[h] = "L363_for"
    /\ IF loc[h].call.attempt <= loc[h].call.retries
       THEN /\ pc' = [pc EXCEPT ![h] = "L365_post"]
            /\ loc' = loc
       ELSE CallEnds(h, "Service temporarily unavailable.")
    /\ UNCHANGED <<auth_handler, users, user_sessions, temp_data>>

\* Line 363: for attempt in range(retries); line 372 once the range is exhausted.
GeminiFor(h) ==
    /\ pc[h] = "L363_for"
    /\ IF loc[h].call.attempt < loc[h].call.retries
       THEN /\ pc' = [pc EXCEPT ![h] = "L365_post"]
            /\ loc' = loc
       ELSE CallEnds(h, "Service temporarily unavailable.")
    /\ UNCHANGED <<auth_handler, users, user_sessions, temp_data>>

\* Lines 365-370: the request and what follows its outcome.  A 200 response
\* returns response.json()["content"] (KeyError leaves the call when the key
\* is missing); an exception of requests returns the error text on the last
\* attempt; everything else goes on to the sleep of line 371.
GeminiPost(h) ==
    /\ pc[h] = "L365_post"
    /\ \E o \in Outcomes :
          LET got == [loc EXCEPT ![h].call.responses = Append(@, o)]
          IN  CASE o = "status_200_content" ->
                      /\ pc' = [pc EXCEPT ![h] = "call_done"]
                      /\ loc' = [got EXCEPT ![h].call.result = "content"]
                [] o = "status_200_no_content" ->
                      /\ pc' = [pc EXCEPT ![h] = "call_done"]
                      /\ loc' = [got EXCEPT ![h].call.result = "KeyError"]
                [] o \in RequestExceptions /\ loc[h].call.attempt = loc[h].call.retries - 1 ->
                      /\ pc' = [pc EXCEPT ![h] = "call_done"]
                      /\ loc' = [got EXCEPT ![h].call.result =
                                    "Error processing query. Please try again later."]
                [] OTHER ->
                      /\ pc' = [pc EXCEPT ![h] = "L371_sleep"]
                      /\ loc' = got
    /\ UNCHANGED <<auth_handler, users, user_sessions, temp_data>>

\* Line 371: time.sleep(2 ** attempt), then the next attempt.
GeminiSleep(h) ==
    /\ pc[h] = "L371_sleep"
    /\ pc' = [pc EXCEPT ![h] = "L363_for"]
    /\ loc' = [loc EXCEPT ![h].call.attempt = @ + 1]
    /\ UNCHANGED <<auth_handler, users, user_sessions, temp_data>>

NextGemini ==
    \/ \E h \in Handlers : GeminiFor(h)
    \/ \E h \in Handlers : GeminiPost(h)
    \/ \E h \in Handlers : GeminiSleep(h)

SpecGemini == InitGemini /\ [][NextGemini]_vars

\* The call keeps running until it ends: requests.post returns or raises
\* within its timeout, and time.sleep returns.
FairGemini == SpecGemini /\ WF_vars(NextGemini)

(* ------------------- auth_handler and image_handler ------------------- *)
\* The successful logins a run makes (each stamps its entry with its
\* login_time, here the number of the login).
MaxLogins == 4

\* A Python dict is the sequence of its items in key order: the order in
\* which the keys were first inserted.
dict_keys(d) == [i \in 1..Len(d) |-> d[i].key]

\* d[key] = value: an item whose key is present keeps its place and takes the
\* value; a new key is appended.
dict_setitem(d, key, value) ==
    IF \E i \in 1..Len(d) : d[i].key = key
    THEN [i \in 1..Len(d) |-> IF d[i].key = key THEN [key |-> key, value |-> value] ELSE d[i]]
    ELSE Append(d, [key |-> key, value |-> value])

\* The latest login_time among the items of d (0: none); datetime.now() of
\* the next login is later.
last_login_time(d) ==
    IF d = <<>> THEN 0
    ELSE CHOOSE t \in 1..MaxLogins :
            /\ \E i \in 1..Len(d) : d[i].value.login_time = t
            /\ \A i \in 1..Len(d) : d[i].value.login_time <= t

\* What /login is sent: an account number and a password, each possibly with
\* surrounding whitespace.
LoginRequests ==
    [account_number : {raw \in RawTexts : raw.body \in {"A1", "A2", "X9"}},
     password : {raw \in RawTexts : raw.body \in {"p1", "p2"}}]

\* auth_handler.login (lines 26-55).  Line 31 fetches the row by the stripped
\* account number, whatever its status.  Line 34 raises HTTPException(401)
\* inside the try block, and the except clause of line 52 catches every
\* Exception, HTTPException included, and raises HTTPException(500) in its
\* place, as it does when the query fails.  Lines 40-44 assign the dict item.
login(request, db_ok) ==
    LET account_number == strip(request.account_number)
        password == strip(request.password)
        user == {u \in users : u.account_number = account_number}
        stamp == 1 + last_login_time(auth_handler.user_sessions)
    IN  IF ~db_ok \/ user = {} \/ \E u \in user : u.password # password
        THEN /\ auth_handler' = [auth_handler EXCEPT !.response =
                    [endpoint |-> "/login", account_number |-> account_number,
                     password |-> password, status |-> 500,
                     detail |-> "Internal Server Error"]]
        ELSE /\ stamp <= MaxLogins
             /\ auth_handler' =
                    [user_sessions |->
                        dict_setitem(auth_handler.user_sessions, account_number,
                                     [customer |-> user, login_time |-> stamp]),
                     response |->
                        [endpoint |-> "/login", account_number |-> account_number,
                         password |-> password, status |-> 200, detail |-> "success"]]

Login ==
    /\ \E request \in LoginRequests, db_ok \in BOOLEAN : login(request, db_ok)
    /\ UNCHANGED <<users, user_sessions, temp_data, pc, loc>>

\* image_handler.image_to_chatbot (lines 77-126).  Lines 81-85: 403 without
\* any session, else the item of the last key of the dict.  Line 88 raises
\* HTTPException(500) when the image cannot be processed; the answer of line
\* 122 is built from the chosen item's customer.
image_to_chatbot(image_ok) ==
    LET d == auth_handler.user_sessions
    IN  auth_handler' = [auth_handler EXCEPT !.response =
            IF d = <<>>
            THEN [endpoint |-> "/image-to-chatbot", status |-> 403,
                  detail |-> "No active session. Please log in first."]
            ELSE LET last_logged_in_user == dict_keys(d)[Len(d)]
                 IN  IF image_ok
                     THEN [endpoint |-> "/image-to-chatbot", status |-> 200,
                           detail |-> last_logged_in_user]
                     ELSE [endpoint |-> "/image-to-chatbot", status |-> 500,
                           detail |-> "Image processing error"]]

ImageToChatbot ==
    /\ \E image_ok \in BOOLEAN : image_to_chatbot(image_ok)
    /\ UNCHANGED <<users, user_sessions, temp_data, pc, loc>>

NextLogin ==
    \/ Login
    \/ ImageToChatbot

SpecLogin == Init /\ [][NextLogin]_vars

(* ------------------------------ properties ---------------------------- *)
\* The handler of invocation h has returned.
Done(h) == pc[h] = "done"
\* It handled a message of a chat and returned the status of a branch of the
\* try block (not through the except clause).
Handled(h) ==
    /\ Done(h)
    /\ loc[h].update = "message"
    /\ loc[h].ret \notin {"error", "EXCEPTION"}
\* The session of chat c as the helpers read it now.
SessionNow(c) == Session(user_sessions, temp_data, c)
Cleared == [state |-> None, scratch |-> None, payload |-> {}]
LastSent(h) == loc[h].sent[Len(loc[h].sent)]

\* C1: when the handler has handled a message whose stripped text is /start
\* (from any prior session) and returned its acknowledgment, the chat's stored
\* state is awaiting_account, its payload is NULL and it has no scratch row;
\* and if no time passed meanwhile the session reads exactly so.
C1_StartResets ==
    \A h \in Handlers :
        (Handled(h) /\ loc[h].text = "/start") =>
            /\ loc[h].ret = "awaiting_account"
            /\ temp_data[loc[h].chat] = {}
            /\ user_sessions[loc[h].chat] # {}
            /\ \A r \in user_sessions[loc[h].chat] :
                    r.state = "awaiting_account" /\ r.user_data = {}
            /\ ~loc[h].disturbed =>
                    SessionNow(loc[h].chat) =
                        [state |-> "awaiting_account", scratch |-> None, payload |-> {}]

\* C1's case: /start handled for a chat whose state read as authenticated.
C1_Witness ==
    \E h \in Handlers :
        /\ Handled(h) /\ loc[h].text = "/start"
        /\ loc[h].pre.state = "authenticated"

\* C2: after /start and an active account's number A, handled without any
\* collaborator failure, handling that account's password leaves the stored
\* state authenticated with the account's row as payload; handling any other
\* text leaves the chat with no session row and no scratch row.
C2_LoginSequence ==
    \A h \in Handlers :
        ( /\ Done(h) /\ ~loc[h].faulted
          /\ loc[h].text # "/start"
          /\ loc[h].user_state = "awaiting_password"
          /\ loc[h].account_number \in AccountNumbers
          /\ loc[h].user # {} ) =>
            IF loc[h].text = PasswordOf(loc[h].account_number)
            THEN /\ user_sessions[loc[h].chat] # {}
                 /\ \A r \in user_sessions[loc[h].chat] :
                        r.state = "authenticated" /\ r.user_data = loc[h].user
            ELSE /\ user_sessions[loc[h].chat] = {}
                 /\ temp_data[loc[h].chat] = {}

\* C3: whenever no update is being handled, every stored session row has a
\* non-NULL user_data if and only if its state is authenticated.
C3_PayloadIffAuthenticated ==
    (\A h \in Handlers : pc[h] = "idle") =>
        \A c \in Chats : \A r \in user_sessions[c] :
            (r.user_data # {}) <=> (r.state = "authenticated")

\* C4: when a /start delivery and a delivery that found the chat awaiting its
\* password overlapped and both have returned, the chat is not left
\* authenticated (in either serial order /start has the last word).
C4_StartNotOvertaken ==
    \A h1, h2 \in Handlers :
        ( /\ h1 # h2 /\ Handled(h1) /\ Done(h2)
          /\ loc[h1].chat = loc[h2].chat
          /\ loc[h1].text = "/start"
          /\ loc[h2].text # "/start"
          /\ loc[h2].user_state = "awaiting_password" ) =>
            \A r \in user_sessions[loc[h1].chat] : r.state # "authenticated"

\* C5: while two chats log in to different accounts at the same time, the
\* scratch account number a handler reads, the account it then fetches and
\* the scratch rows stored for a chat are those of the handler's own chat.
C5_ScratchIsolated ==
    /\ \A h \in Handlers :
          /\ loc[h].account_number \in {None, OwnAccount(loc[h].chat)}
          /\ pc[h] \in {"L207_set_state", "L208_store_session", "L222_send", "L224_clear"} =>
                \A u \in loc[h].user : u.account_number = OwnAccount(loc[h].chat)
    /\ \A c \in Chats : \A r \in temp_data[c] : r.value = OwnAccount(c)

\* C5's case: both chats are checking a password at the same time, each with
\* its own scratch account number.
C5_Witness ==
    \E h1, h2 \in Handlers :
        /\ pc[h1] = "L205_get_user" /\ loc[h1].account_number = "A1"
        /\ pc[h2] = "L205_get_user" /\ loc[h2].account_number = "A2"

\* C6: a message other than /start that arrives when the chat's authenticated
\* row has expired is answered with the session-expired message and leaves
\* the chat reading as anonymous.
C6_ExpiredSessionReply ==
    \A h \in Handlers :
        ( /\ Done(h) /\ ~loc[h].faulted
          /\ loc[h].update = "message" /\ loc[h].text # "/start"
          /\ loc[h].pre.state = None
          /\ \E r \in user_sessions[loc[h].chat] :
                r.state = "authenticated" /\ r.expires_in = 0 ) =>
            /\ loc[h].sent = <<ReplyAt("L231_send")>>
            /\ SessionNow(loc[h].chat).state = None

\* C7: a message other than /start that arrives when the chat awaits its
\* password and has no live scratch account number is answered "session
\* expired" and, no time having passed, leaves the chat reading as anonymous.
C7_MissingScratchLeavesAnonymous ==
    \A h \in Handlers :
        ( /\ Handled(h) /\ ~loc[h].disturbed
          /\ loc[h].text # "/start"
          /\ loc[h].pre.state = "awaiting_password"
          /\ loc[h].pre.scratch = None ) =>
            /\ loc[h].sent = <<ReplyAt("L201_send")>>
            /\ SessionNow(loc[h].chat).state = None

\* The Data Store holds an active account numbered a.
ActiveAccount(a) == \E r \in users : r.account_number = a /\ r.status = "ACTIVE"

\* C8: a text A other than /start handled for a chat awaiting its account
\* number, with no collaborator failure and neither time passing nor the Data
\* Store changing meanwhile: if the Data Store holds an active account A the
\* chat reads awaiting_password with scratch A, and otherwise the session
\* reads as it did before (awaiting_account, scratch not written).  Whatever
\* passes meanwhile, the acknowledgment awaiting_password comes with scratch
\* A stored, and invalid_account with no state written.
C8_AccountStep ==
    \A h \in Handlers :
        ( /\ Handled(h)
          /\ loc[h].text # "/start"
          /\ loc[h].user_state = "awaiting_account" ) =>
            /\ loc[h].ret \in {"awaiting_password", "invalid_account"}
            /\ loc[h].ret = "awaiting_password" =>
                  /\ \A r \in user_sessions[loc[h].chat] : r.state = "awaiting_password"
                  /\ \E r \in temp_data[loc[h].chat] :
                        r.key = "account_number" /\ r.value = loc[h].text
            /\ loc[h].ret = "invalid_account" =>
                  \A r \in user_sessions[loc[h].chat] : r.state = "awaiting_account"
            /\ ~loc[h].disturbed =>
                  IF ActiveAccount(loc[h].text)
                  THEN /\ loc[h].ret = "awaiting_password"
                       /\ SessionNow(loc[h].chat) =
                            [state |-> "awaiting_password", scratch |-> loc[h].text,
                             payload |-> loc[h].pre.payload]
                  ELSE /\ loc[h].ret = "invalid_account"
                       /\ SessionNow(loc[h].chat) = loc[h].pre
                       /\ loc[h].pre.state = "awaiting_account"

\* C8's case: the number of an account that is not active is refused for a
\* chat awaiting its account number.
C8_Witness ==
    \E h \in Handlers :
        /\ Handled(h) /\ ~loc[h].disturbed
        /\ loc[h].user_state = "awaiting_account"
        /\ loc[h].text \in AccountNumbers
        /\ ~ActiveAccount(loc[h].text)

\* The handler took the invalid-password branch (line 221).
InvalidPasswordPath(h) ==
    /\ loc[h].text # "/start"
    /\ loc[h].user_state = "awaiting_password"
    /\ loc[h].account_number # None
    /\ \A u \in loc[h].user : ~verify_password(loc[h].text, u.password)

\* C9: when handling a message ended in the except clause (a step failed) and
\* no time passed meanwhile, the chat's session reads as it did when the
\* message arrived, or is cleared on the invalid-password branch.
C9_FailureKeepsSession ==
    \A h \in Handlers :
        ( /\ Done(h) /\ loc[h].update = "message"
          /\ loc[h].ret \in {"error", "EXCEPTION"}
          /\ ~loc[h].disturbed ) =>
            \/ SessionNow(loc[h].chat) = loc[h].pre
            \/ InvalidPasswordPath(h) /\ SessionNow(loc[h].chat) = Cleared

\* C10: every update the handler is given ends with the handler returning a
\* {"status": ...} acknowledgment; no exception leaves the handler.
C10_AlwaysAcknowledges ==
    \A h \in Handlers : Done(h) => loc[h].ret # "EXCEPTION"

\* C11: every handling of a message that returns a status has sent exactly
\* one reply to the chat, also when a step after the reply failed and the
\* except clause ran.
C11_ExactlyOneReply ==
    \A h \in Handlers :
        ( /\ Done(h) /\ loc[h].update = "message"
          /\ loc[h].ret # "EXCEPTION" ) =>
            Len(loc[h].sent) = 1

\* C12: a handler reaches the commands of lines 235-264 (where the Answer
\* Service is called) only having read the state authenticated and fetched a
\* live row with a payload; and a /query from a chat that reads as having no
\* session is answered "Please authenticate first" and nothing else.
C12_NoAnswerServiceUnauthenticated ==
    \A h \in Handlers :
        /\ pc[h] = "L235_commands" =>
              /\ loc[h].user_state = "authenticated"
              /\ \E r \in Live(user_sessions[loc[h].chat]) : r.user_data # {}
        /\ ( /\ Handled(h) /\ loc[h].text = "/query q"
             /\ loc[h].user_state \notin {"awaiting_account", "awaiting_password",
                                          "authenticated"} ) =>
              /\ loc[h].sent = <<ReplyAt("L267_send")>>
              /\ loc[h].ret = "unauthorized"

\* C12's case: a /query handled for a chat that has no session.
C12_Witness ==
    \E h \in Handlers :
        /\ Handled(h) /\ loc[h].text = "/query q"
        /\ loc[h].pre.state = None /\ loc[h].user_state = None
        /\ user_sessions[loc[h].chat] = {}

\* C13: a handled message has made at most one Session Store write (its
\* session change is never applied as two or more separate writes), and none
\* when the input was rejected.
C13_OneStateWrite ==
    \A h \in Handlers :
        Handled(h) =>
            /\ loc[h].writes <= 1
            /\ loc[h].ret \in {"invalid_account", "session_expired", "unauthorized"} =>
                    loc[h].writes = 0

\* C14: when the handler has put a text to the password check (by success
\* or by mismatch) and returned, no collaborator call having failed, the
\* scratch account number of the chat is no longer readable.
C14_ScratchGoneAfterLogin ==
    \A h \in Handlers :
        ( /\ Done(h) /\ ~loc[h].faulted
          /\ loc[h].text # "/start"
          /\ loc[h].user_state = "awaiting_password"
          /\ loc[h].account_number # None ) =>
            get_temp_data(temp_data, loc[h].chat, "account_number") = None

\* The help text an unrecognized command is to be answered with: the command
\* list, which the handler sends only inside the reply of line 219.
HelpText == "Available commands: /transactions, /query"

\* C15: a message that is neither /start, /transactions nor /query, handled
\* for a chat whose state reads authenticated (no collaborator failing, no
\* time passing), is answered with the help text, not with another reply, and
\* the state still reads authenticated.
C15_UnknownCommandHelp ==
    \A h \in Handlers :
        ( /\ Done(h) /\ ~loc[h].faulted /\ ~loc[h].disturbed
          /\ loc[h].update = "message"
          /\ loc[h].text \in {"X9", "A1", "A2", "p1", "p2"}
          /\ loc[h].pre.state = "authenticated" ) =>
            /\ loc[h].sent = <<HelpText>>
            /\ SessionNow(loc[h].chat).state = "authenticated"

\* The canonical lowercase command a text spells when letter case is ignored
\* (the text itself when it spells none).
Canonical(text) == IF text = "/START" THEN "/start" ELSE text

\* C16: a message whose text, surrounding whitespace and letter case set
\* aside, is /start causes what /start causes: handled with no time passing,
\* it is acknowledged awaiting_account and the chat reads awaiting_account
\* with no scratch and no payload.
C16_CommandsIgnoreCase ==
    \A h \in Handlers :
        ( /\ Handled(h) /\ ~loc[h].disturbed
          /\ Canonical(loc[h].text) = "/start" ) =>
            /\ loc[h].ret = "awaiting_account"
            /\ SessionNow(loc[h].chat) =
                    [state |-> "awaiting_account", scratch |-> None, payload |-> {}]

Is200(o) == o \in {"status_200_content", "status_200_no_content"}

\* The requests of a call so far are at most retries; a 200 response is the
\* last response of its call and ends it, handing back the content when the
\* body holds it.
CallBounded(h) ==
    LET call == loc[h].call
        n == Len(call.responses)
    IN  /\ n <= call.retries
        /\ \A i \in 1..n :
              Is200(call.responses[i]) => i = n /\ pc[h] = "call_done"
        /\ (n > 0 /\ call.responses[n] = "status_200_content") => call.result = "content"

GeminiReplies ==
    {"content", "Service temporarily unavailable.",
     "Error processing query. Please try again later."}

\* C18: a /query handled for a chat whose state reads authenticated, with no
\* failure but the Answer Service's and no time passing, is answered with
\* what call_gemini_api hands back (its "unavailable" text when every attempt
\* failed), and the chat's session reads as it did before.
C18_QueryFailureReply ==
    \A h \in Handlers :
        ( /\ Done(h) /\ ~loc[h].faulted /\ ~loc[h].disturbed
          /\ loc[h].update = "message"
          /\ loc[h].text = "/query q"
          /\ loc[h].pre.state = "authenticated" ) =>
            /\ Len(loc[h].sent) = 1
            /\ loc[h].sent[1] \in GeminiReplies
            /\ SessionNow(loc[h].chat) = loc[h].pre

\* The texts format_transaction_message (lines 133-148) yields: the fixed
\* text for no rows, or the listing of the rows.
TransactionReplies == {"No recent transactions found.", "Recent Transactions:"}

\* C19: each /transactions handled for a chat whose state reads
\* authenticated, with no collaborator failing, no time passing and the Data
\* Store unchanged, is answered with the listing of the customer's recent
\* transactions, acknowledged transactions_fetched, and the chat's session
\* (state, scratch, payload) reads as it did before.
C19_TransactionsIdempotent ==
    \A h \in Handlers :
        ( /\ Done(h) /\ ~loc[h].faulted /\ ~loc[h].disturbed
          /\ loc[h].update = "message"
          /\ loc[h].text = "/transactions"
          /\ loc[h].pre.state = "authenticated" ) =>
            /\ loc[h].ret = "transactions_fetched"
            /\ Len(loc[h].sent) = 1
            /\ loc[h].sent[1] \in TransactionReplies
            /\ SessionNow(loc[h].chat) = loc[h].pre

\* The rows of a chat whose expires_at is later than NOW().
Unexpired(rows) == {r \in rows : r.expires_in # 0}

\* C20: every read a handler makes of the Session Store takes its value from
\* a row whose expires_at is later than the current time, and finds the
\* record absent when the chat has no such row, expired rows being still
\* stored: get_user_state (line 173), get_temp_data (line 199) and
\* get_user_session (line 229).
C20_ReadsSkipExpired ==
    [][\A h \in Handlers :
        /\ (pc[h] = "L173_get_state" /\ pc'[h] \notin {"L173_get_state", "L274_send"}) =>
              IF Unexpired(user_sessions[loc[h].chat]) = {}
              THEN loc'[h].user_state = None
              ELSE \E r \in Unexpired(user_sessions[loc[h].chat]) :
                        loc'[h].user_state = r.state
        /\ (pc[h] = "L199_get_temp" /\ pc'[h] \in {"L201_send", "L205_get_user"}) =>
              IF Unexpired(temp_data[loc[h].chat]) = {}
              THEN loc'[h].account_number = None /\ pc'[h] = "L201_send"
              ELSE \E r \in Unexpired(temp_data[loc[h].chat]) :
                        loc'[h].account_number = r.value
        /\ (pc[h] = "L229_get_session" /\ pc'[h] # "L229_get_session"
                /\ ~loc'[h].faulted) =>
              (pc'[h] = "L231_send" <=> Unexpired(user_sessions[loc[h].chat]) = {})
    ]_vars

\* C20's case: a handler has read the state of a chat whose only session row
\* has expired and is still stored, and found no state.
C20_Witness ==
    \E h \in Handlers :
        /\ pc[h] = "L267_send" /\ loc[h].user_state = None
        /\ \E r \in user_sessions[loc[h].chat] :
                r.expires_in = 0 /\ r.state = "authenticated"

\* C21: the step that takes in an update without "message" ends the handler
\* at once with the acknowledgment no_message: no Session Store read or
\* write, no Data Store or Answer Service call, no reply, every table as it
\* was.
C21_NoMessageNoOp ==
    [][\A h \in Handlers :
        (pc[h] = "idle" /\ loc'[h].update = "no_message") =>
            /\ pc'[h] = "done"
            /\ loc'[h] = [IdleLoc EXCEPT !.update = "no_message", !.ret = "no_message"]
            /\ UNCHANGED <<users, user_sessions, temp_data>>
    ]_vars

\* C21's case: an update without "message" has been handled while a chat
\* holds a live session.
C21_Witness ==
    \E h \in Handlers :
        /\ Done(h) /\ loc[h].update = "no_message"
        /\ \E c \in Chats : Live(user_sessions[c]) # {}

\* The step gives chat c a session row whose state is authenticated where it
\* had none.
BecomesAuthenticated(c) ==
    /\ \A r \in user_sessions[c] : r.state # "authenticated"
    /\ \E r \in user_sessions'[c] : r.state = "authenticated"

\* C22: a chat's state becomes authenticated only by the step of a handler of
\* that chat which read the state awaiting_password, read a scratch account
\* number, fetched that account as an active row, and whose text equals the
\* row's password.
C22_AuthenticatedOnlyByCredential ==
    [][\A c \in Chats :
        BecomesAuthenticated(c) =>
            \E h \in Handlers :
                /\ loc[h].chat = c
                /\ pc[h] = "L207_set_state" /\ pc'[h] = "L208_store_session"
                /\ loc[h].user_state = "awaiting_password"
                /\ loc[h].account_number \in AccountNumbers
                /\ loc[h].user # {}
                /\ \A u \in loc[h].user :
                      /\ u.account_number = loc[h].account_number
                      /\ u.status = "ACTIVE"
                      /\ u.password = loc[h].text
    ]_vars

\* C22's case: a chat's state reads authenticated.
C22_Witness ==
    \E c \in Chats : SessionNow(c).state = "authenticated"

\* C23: when the account whose number is the chat's scratch is no longer
\* active, its correct password, handled for the chat awaiting its password
\* (no collaborator failing, nothing else changing meanwhile), does not
\* authenticate: the reply is
\* "Invalid password", both tables lose the chat's rows and the chat reads as
\* having no session.
C23_DeactivatedAccountRejected ==
    \A h \in Handlers :
        ( /\ Done(h) /\ ~loc[h].faulted /\ ~loc[h].disturbed
          /\ loc[h].update = "message"
          /\ loc[h].pre.state = "awaiting_password"
          /\ loc[h].pre.scratch \in AccountNumbers
          /\ ~ActiveAccount(loc[h].pre.scratch)
          /\ loc[h].text = PasswordOf(loc[h].pre.scratch) ) =>
            /\ loc[h].sent = <<ReplyAt("L222_send")>>
            /\ loc[h].ret = "invalid_password"
            /\ user_sessions[loc[h].chat] = {}
            /\ temp_data[loc[h].chat] = {}
            /\ SessionNow(loc[h].chat) = Cleared

\* C23's case: the correct password of a deactivated account has been handled
\* for a chat that awaited it.
C23_Witness ==
    \E h \in Handlers :
        /\ Handled(h) /\ ~loc[h].disturbed
        /\ loc[h].pre.state = "awaiting_password"
        /\ loc[h].pre.scratch = "A1"
        /\ ~ActiveAccount("A1")
        /\ loc[h].text = "p1"

\* C24: a text other than /start handled for a chat that is read as awaiting
\* its password (its state row is live) and whose scratch account number is
\* read as absent (it has expired) is answered "Session expired", writes nothing and authenticates nobody,
\* the chat's password included; and, no time passing, the chat still reads
\* awaiting_password without scratch, so that the next text meets the same.
C24_ExpiredScratchNeverAuthenticates ==
    \A h \in Handlers :
        ( /\ Done(h) /\ ~loc[h].faulted
          /\ loc[h].update = "message"
          /\ loc[h].text # "/start"
          /\ loc[h].user_state = "awaiting_password"
          /\ loc[h].account_number = None ) =>
            /\ loc[h].sent = <<ReplyAt("L201_send")>>
            /\ loc[h].ret = "session_expired"
            /\ loc[h].writes = 0
            /\ \A r \in user_sessions[loc[h].chat] : r.state = "awaiting_password"
            /\ ~loc[h].disturbed =>
                  SessionNow(loc[h].chat) =
                      [state |-> "awaiting_password", scratch |-> None,
                       payload |-> loc[h].pre.payload]

\* C24's case: the correct password of the accepted account, handled after
\* the scratch row expired and while the state row is live.
C24_Witness ==
    \E h \in Handlers :
        /\ Done(h) /\ ~loc[h].faulted /\ ~loc[h].disturbed
        /\ loc[h].text = "p1"
        /\ loc[h].user_state = "awaiting_password"
        /\ loc[h].account_number = None
        /\ \E r \in temp_data[loc[h].chat] : r.value = "A1" /\ r.expires_in = 0
        /\ Live(user_sessions[loc[h].chat]) # {}

\* C25: when the handler has accepted the password of the chat's scratch
\* account and returned, no collaborator call having failed and no time
\* having passed, the chat's session row is authenticated and expires one
\* authenticated TTL (1 day) from now.
C25_LoginExpiryOneDay ==
    \A h \in Handlers :
        ( /\ Done(h) /\ ~loc[h].faulted /\ ~loc[h].disturbed
          /\ loc[h].text # "/start"
          /\ loc[h].user_state = "awaiting_password"
          /\ loc[h].account_number \in AccountNumbers
          /\ loc[h].user # {}
          /\ loc[h].text = PasswordOf(loc[h].account_number) ) =>
            /\ user_sessions[loc[h].chat] # {}
            /\ \A r \in user_sessions[loc[h].chat] :
                    r.state = "authenticated" /\ r.expires_in = SessionTTL

\* The request names an account of the Data Store and its password.
ValidCredentials(account_number, password) ==
    \E u \in users : u.account_number = account_number /\ u.password = password

\* C26: a /login with an unknown account number or a password that does not
\* match is answered 401 "Invalid credentials" and leaves the dict
\* user_sessions as it was; a /login that succeeds changes no item but the
\* one keyed by its account number.
C26_InvalidLogin401 ==
    [][LET r == auth_handler'.response
           d == auth_handler.user_sessions
           e == auth_handler'.user_sessions
       IN  (auth_handler' # auth_handler /\ r.endpoint = "/login") =>
              IF r.status = 200
              THEN /\ ValidCredentials(r.account_number, r.password)
                   /\ \A i \in 1..Len(d) :
                         d[i].key # r.account_number => \E j \in 1..Len(e) : e[j] = d[i]
              ELSE ~ValidCredentials(r.account_number, r.password) =>
                      /\ r.status = 401
                      /\ r.detail = "Invalid credentials"
                      /\ e = d
    ]_vars

\* The key of the item of d with the latest login_time.
MostRecentLogin(d) ==
    (CHOOSE i \in 1..Len(d) : d[i].value.login_time = last_login_time(d))

\* C27: image_to_chatbot answers 403 exactly when the dict holds no login,
\* and otherwise, when it answers, uses the item of the account that logged
\* in most recently.
C27_ImageUsesLatestLogin ==
    [][LET r == auth_handler'.response
           d == auth_handler.user_sessions
       IN  (auth_handler' # auth_handler /\ r.endpoint = "/image-to-chatbot") =>
              /\ r.status = 403 <=> d = <<>>
              /\ r.status = 200 => r.detail = d[MostRecentLogin(d)].key
    ]_vars

====
